---- MODULE Spec2Model ----
(***************************************************************************)
(* Model of src/scanner.py: the Discord `scan` command of the token        *)
(* scanner bot.  One invocation of fetch_token_status is a coroutine on    *)
(* the bot's single-threaded asyncio event loop.  It suspends at its       *)
(* awaits (ctx.send, the aiohttp calls to Helius and DexScreener); the     *)
(* three Bitquery lookups use the blocking `requests` library, so from the *)
(* DexScreener response to the final ctx.send one invocation holds the     *)
(* event loop.  The only state shared between invocations is the module    *)
(* level bearer-token cache (scanner.py lines 22-24).                      *)
(*                                                                         *)
(* Python values are modelled as records with a tag: TLC cannot compare a  *)
(* string with a number, so a dict entry that may hold a number, a         *)
(* non-numeric string, null, or be absent is a record [t |-> ...].         *)
(***************************************************************************)
EXTENDS Integers, Sequences, FiniteSets, TLC

(***************************************************************************)
(* Bounds of the model.                                                    *)
(***************************************************************************)
\* Number of `scan` invocations that may be in flight together.
NumScans == 2
\* The clock (seconds since start) stops advancing at MaxTime.
MaxTime == 3
\* The provider declares token lifetimes of 1..MaxExpiresIn seconds.
MaxExpiresIn == 2

(***************************************************************************)
(* Program constants.                                                      *)
(***************************************************************************)
\* data.get("expires_in", 3600), line 57.
DefaultExpiresIn == 3600
\* bitquery_token_expires_at = None (line 24): the expiry is no datetime.
\* Clock values are >= 0, so -1 stands for None.
NoExpiry == -1

Scans == 1 .. NumScans

(***************************************************************************)
(* Python values.                                                          *)
(***************************************************************************)
\* A number n/d (a JSON number, or a numeric string: float() accepts both).
Num(n, d) == [t |-> "num", n |-> n, d |-> d]
\* A string that float() rejects with ValueError.
NonNumeric == [t |-> "str"]
\* JSON null: float(None) raises TypeError.
Null == [t |-> "null"]
\* The key is absent from the dict: .get returns its default.
Absent == [t |-> "absent"]

\* dict.get(key, default) on an entry modelled as above.
Get(v, default) == IF v = Absent THEN default ELSE v

(***************************************************************************)
(* format_number (lines 31-35).                                            *)
(***************************************************************************)
Pad2(m) == IF m < 10 THEN "0" \o ToString(m) ELSE ToString(m)

Pad3(m) == IF m < 10 THEN "00" \o ToString(m)
           ELSE IF m < 100 THEN "0" \o ToString(m) ELSE ToString(m)

\* The "," of the format: the integer part in groups of three digits.
RECURSIVE Grouped(_)
Grouped(k) == IF k < 1000 THEN ToString(k)
              ELSE Grouped(k \div 1000) \o "," \o Pad3(k % 1000)

\* The ".2f" of the format: n/d (n >= 0, d > 0) in cents, rounded to the
\* nearest cent, a tie going to the even cent (the formatting rounds the
\* value it is given correctly).
RoundCents(n, d) ==
    LET q == (n * 100) \div d
        r == (n * 100) % d
    IN  IF 2 * r < d THEN q
        ELSE IF 2 * r > d THEN q + 1
        ELSE IF q % 2 = 0 THEN q ELSE q + 1

\* "${:,.2f}".format(x) for x = n/d.
Dollars(n, d) ==
    LET a == IF n < 0 THEN -n ELSE n
        c == RoundCents(a, d)
    IN  "$" \o (IF n < 0 THEN "-" ELSE "")
            \o Grouped(c \div 100) \o "." \o Pad2(c % 100)

\* format_number(num): float(num) raises ValueError on a non-numeric string
\* and TypeError on None; both are caught and give "Unavailable".
format_number(num) ==
    IF num.t = "num" THEN Dollars(num.n, num.d) ELSE "Unavailable"

(***************************************************************************)
(* The market cap of lines 239-247.                                        *)
(***************************************************************************)
RECURSIVE Pow10(_)
Pow10(k) == IF k = 0 THEN 1 ELSE 10 * Pow10(k - 1)

\* The market cap without the decimals adjustment of line 244.
MarketCapOfRawSupply(token_info) ==
    LET price == Get(token_info.price, Num(0, 1))
        supply == Get(token_info.supply, Num(0, 1))
    IN  IF price.t # "num" \/ supply.t # "num" THEN "N/A"
        ELSE IF price.n > 0 /\ supply.n > 0
        THEN format_number(Num(price.n * supply.n, price.d * supply.d))
        ELSE "N/A"

\* token_info is [price, supply, decimals]: price is
\* price_info.get("price_per_token", 0), supply token_info.get("supply", 0),
\* decimals token_info.get("decimals", 0), a non-negative integer or Absent.
MarketCapOf(token_info) ==
    LET price == Get(token_info.price, Num(0, 1))
        supply == Get(token_info.supply, Num(0, 1))
        decimals == Get(token_info.decimals, Num(0, 1))
    IN  IF price.t # "num" \/ supply.t # "num"
        THEN "N/A"                      \* except (ValueError, TypeError)
        ELSE LET adjusted == IF decimals.n # 0
                             THEN Num(supply.n, supply.d * Pow10(decimals.n))
                             ELSE supply
             IN  IF price.n > 0 /\ adjusted.n > 0
                 THEN format_number(Num(price.n * adjusted.n,
                                        price.d * adjusted.d))
                 ELSE "N/A"

(***************************************************************************)
(* What the providers may answer.                                          *)
(***************************************************************************)
\* bitquery_access_token = None (line 23).
NoToken == "None"
\* The access_token strings the OAuth endpoint may issue.
Tokens == {"t1", "t2"}

\* Values of helius_data (line 215).  HNone: get_helius_asset_data returned
\* None (status other than 200, or aiohttp.ClientError, lines 108-113).
\* HEmpty: asset_data.get("result", {}) gave {} (a JSON-RPC error body).
\* Otherwise the "result" object, with the entries lines 233-243 read:
\* content.metadata.name, token_info.symbol, authorities and token_info.
Unbound == [kind |-> "unbound"]
HNone == [kind |-> "None"]
HEmpty == [kind |-> "empty"]
HData(name, symbol, authorities, price, supply, decimals) ==
    [kind |-> "data", name |-> name, symbol |-> symbol,
     authorities |-> authorities,
     token_info |-> [price |-> price, supply |-> supply,
                     decimals |-> decimals]]

\* "authorities" is absent, the empty list, or a list whose first element
\* has this address (addresses of the model have at most 8 characters, so
\* developer_address[:8] is the whole address).
HeliusResults ==
    { HNone, HEmpty,
      HData("Token", "TKN", "Dev1", Num(3, 1), Num(1000, 1), Num(2, 1)),
      HData("absent", "absent", "absent", Absent, Absent, Absent),
      HData("Token", "TKN", "empty", Num(3, 1), Num(1000, 1), Num(2, 1)) }

\* What the Helius endpoint may answer to session.post (line 107).
HeliusResponses ==
    { [ev |-> e] : e \in {"client_error", "non200", "bad_json"} }
    \cup { [ev |-> "body", result |-> h] : h \in HeliusResults \ {HNone} }

\* get_helius_asset_data (lines 91-113): what the call ends with, a value
\* returned or an exception raised.  aiohttp.ClientError is caught and a
\* status other than 200 falls through: both return None.  A 200 body
\* that is not JSON makes response.json() raise json.JSONDecodeError, which
\* is no aiohttp.ClientError.  A body without "result" gives {}.
get_helius_asset_data(resp) ==
    CASE resp.ev \in {"client_error", "non200"} ->
            [ev |-> "return", value |-> HNone]
      [] resp.ev = "bad_json" -> [ev |-> "raise", exc |-> "JSONDecodeError"]
      [] OTHER -> [ev |-> "return", value |-> resp.result]

\* What DexScreener may answer to session.get (line 170); for a 200 JSON
\* body, orders says whether it is an object whose "orders" holds an order
\* with status "approved".
DexResponses ==
    { [ev |-> e] : e \in {"client_error", "non200", "bad_json"} }
    \cup { [ev |-> "body", orders |-> o] : o \in {"approved", "other"} }

\* get_dex_paid_status (lines 166-180).
get_dex_paid_status(resp) ==
    CASE resp.ev \in {"client_error", "non200"} ->
            [ev |-> "return", value |-> "N/A"]
      [] resp.ev = "bad_json" -> [ev |-> "raise", exc |-> "JSONDecodeError"]
      [] OTHER -> [ev |-> "return",
                   value |-> IF resp.orders = "approved" THEN "Yes" ELSE "No"]

\* What the OAuth token endpoint may answer to requests.post (line 52).
\*   transport        requests.post raises ConnectionError
\*   non200           status_code != 200
\*   bad_json         200, body is not JSON: response.json() raises
\*   no_access_token  200, JSON object without "access_token": KeyError
\*   bad_expires_in   200, "expires_in" is no number (a string, null):
\*                    timedelta(seconds=...) raises TypeError
\*   ok               200, access_token and expires_in (or none) as declared
TokenResponses ==
    { [ev |-> e] : e \in {"transport", "non200", "bad_json",
                          "no_access_token"} }
    \cup { [ev |-> "bad_expires_in", access_token |-> t] : t \in Tokens }
    \cup { [ev |-> "ok", access_token |-> t, expires_in |-> x] :
             t \in Tokens,
             x \in {Absent} \cup { Num(s, 1) : s \in 1 .. MaxExpiresIn } }

\* Values of graphql_request's result (lines 66-88): None, or the "data"
\* object of the body.  GEmpty is {}.  For the two Instructions queries the
\* object is modelled by result.get("Solana", {}).get("Instructions", []):
\* "absent", "empty" ([]) or "rows"; "null" says "Solana" itself is null.
\* For the trade query it is modelled by DEXTradeByTokens: "absent",
\* "empty" ([]), or a list whose first row holds the three sums.
GNone == [kind |-> "None"]
GEmpty == [kind |-> "empty"]
GInstructions(x) == [kind |-> "dict", Instructions |-> x]
GTrades(rows) == [kind |-> "dict", DEXTradeByTokens |-> rows]
TradeRow(buy, sell, total) ==
    [t |-> "row", buy_volume |-> buy, sell_volume |-> sell,
     total_trade_volume |-> total]

\* The first rows the model draws: all three sums; no buy (the sum is
\* null); a row without any of the three keys.
TradeRows ==
    { TradeRow(Num(1234567, 1), Num(5, 2), Num(2469139, 2)),
      TradeRow(Null, Num(5, 2), Num(5, 2)),
      TradeRow(Absent, Absent, Absent) }

GraphqlData(st) ==
    IF st = "trade"
    THEN {GNone, GEmpty, GTrades(Absent), GTrades([t |-> "empty"])}
         \cup { GTrades(r) : r \in TradeRows }
    ELSE {GNone, GEmpty}
         \cup { GInstructions(x) : x \in {"absent", "empty", "rows", "null"} }

\* What requests.post to the GraphQL endpoint ends with (lines 79-88):
\*   caught   RequestException (transport, raise_for_status) or a body that
\*            is not JSON: graphql_request returns None
\*   not_dict the body is JSON but no object: data.get raises AttributeError
\*   body     a JSON object; data.get("data", None)
GraphqlResponses(st) ==
    { [ev |-> "caught"], [ev |-> "not_dict"] }
    \cup { [ev |-> "body", data |-> d] : d \in GraphqlData(st) }

(***************************************************************************)
(* State.                                                                  *)
(***************************************************************************)
VARIABLES
    now,                        \* datetime.utcnow(), in seconds
    bitquery_access_token,      \* line 23
    bitquery_token_expires_at,  \* line 24
    running,        \* the invocation holding the event loop, 0 when none
    pc,             \* where each invocation of fetch_token_status is
    stage,          \* which Bitquery lookup it is in
    access_token,   \* graphql_request's local (line 67)
    result,         \* the lookup's local: what graphql_request returned
    helius_data, dex_paid_status, migration_status, jito_bundle_status,
    trade_info, market_cap, embed,      \* locals of fetch_token_status
    exc,            \* the exception that ended the invocation, if one did
    reqs,           \* the requests the invocation has sent, per provider
    faults          \* the providers that may fail or answer oddly

vars == <<now, bitquery_access_token, bitquery_token_expires_at, running,
          pc, stage, access_token, result, helius_data, dex_paid_status,
          migration_status, jito_bundle_status, trade_info, market_cap,
          embed, exc, reqs, faults>>

cache == <<bitquery_access_token, bitquery_token_expires_at>>
lookups == <<migration_status, jito_bundle_status, trade_info>>
locals == <<helius_data, dex_paid_status, migration_status,
            jito_bundle_status, trade_info, market_cap, embed>>

\* The answers a provider may give: all of `all` when the run lets it fail,
\* else the well-formed ones.
Answers(provider, all, good) == IF provider \in faults THEN all ELSE good

GoodHelius ==
    { [ev |-> "body",
       result |-> HData("Token", "TKN", "Dev1",
                        Num(3, 1), Num(1000, 1), Num(2, 1))] }

GoodDex == { [ev |-> "body", orders |-> "approved"] }

GoodGraphql(st) ==
    IF st = "trade"
    THEN { [ev |-> "body",
            data |-> GTrades(TradeRow(Num(1234567, 1), Num(5, 2),
                                      Num(2469139, 2)))] }
    ELSE { [ev |-> "body", data |-> GInstructions("rows")] }

Providers == {"helius", "dex", "token", "graphql"}

NoRequests == [helius |-> 0, dex |-> 0, token |-> 0,
               migration |-> 0, jito |-> 0, trade |-> 0]

NoException == [type |-> "none", line |-> 0]
Exception(type, line) == [type |-> type, line |-> line]

\* The state after the module is loaded, with no command received yet.
Loaded ==
    /\ now = 0
    /\ bitquery_access_token = NoToken
    /\ bitquery_token_expires_at = NoExpiry
    /\ running = 0
    /\ stage = [i \in Scans |-> "none"]
    /\ access_token = [i \in Scans |-> NoToken]
    /\ result = [i \in Scans |-> Unbound]
    /\ helius_data = [i \in Scans |-> Unbound]
    /\ dex_paid_status = [i \in Scans |-> "unbound"]
    /\ migration_status = [i \in Scans |-> "unbound"]
    /\ jito_bundle_status = [i \in Scans |-> "unbound"]
    /\ trade_info = [i \in Scans |-> Unbound]
    /\ market_cap = [i \in Scans |-> "unbound"]
    /\ embed = [i \in Scans |-> <<>>]
    /\ exc = [i \in Scans |-> NoException]
    /\ reqs = [i \in Scans |-> NoRequests]

\* `scan` commands arrive for invocation 1 only (pc "off": no command
\* arrives for the slot), and every provider may answer in every way.
Init ==
    /\ Loaded
    /\ pc = [i \in Scans |-> IF i = 1 THEN "idle" ELSE "off"]
    /\ faults = Providers

\* Commands arrive for all NumScans invocations, which may overlap; the
\* token endpoint may answer in every way, the other providers answer well.
InitShared ==
    /\ Loaded
    /\ pc = [i \in Scans |-> "idle"]
    /\ faults = {"token"}

(***************************************************************************)
(* The Bitquery lookups, as functions of graphql_request's result.       *)
(***************************************************************************)
\* "if result:" (lines 135, 160, 200): None and {} are false.
Truthy(res) == res.kind = "dict"

\* check_migration_status and check_jito_bundle after graphql_request
\* returned (lines 135-138, 160-163); none_msg is the function's "No ..."
\* string.  result.get("Solana", {}) is None when "Solana" is null, and
\* None.get raises AttributeError.
check_status(res, none_msg) ==
    IF ~Truthy(res) THEN [ev |-> "return", value |-> "Unavailable"]
    ELSE IF res.Instructions = "null"
    THEN [ev |-> "raise", exc |-> "AttributeError"]
    ELSE [ev |-> "return",
          value |-> IF res.Instructions = "rows"
                    THEN "Detected" ELSE none_msg]

check_migration_status(res) == check_status(res, "No migration detected.")

check_jito_bundle(res) == check_status(res, "No Jito Bundle detected.")

Unavailable3 == [buy_volume |-> "Unavailable", sell_volume |-> "Unavailable",
                 total_trade_volume |-> "Unavailable"]

\* get_latest_trade_info after graphql_request returned (lines 200-207).
\* .get("DEXTradeByTokens", [{}])[0]: the default [{}] when the key is
\* absent, IndexError on the empty list.
get_latest_trade_info(res) ==
    IF ~Truthy(res) THEN [ev |-> "return", value |-> Unavailable3]
    ELSE LET rows == Get(res.DEXTradeByTokens,
                         TradeRow(Absent, Absent, Absent))
         IN  IF rows.t = "empty"
             THEN [ev |-> "raise", exc |-> "IndexError"]
             ELSE [ev |-> "return",
                   value |->
                     [buy_volume |->
                        format_number(Get(rows.buy_volume, Num(0, 1))),
                      sell_volume |->
                        format_number(Get(rows.sell_volume, Num(0, 1))),
                      total_trade_volume |->
                        format_number(Get(rows.total_trade_volume,
                                          Num(0, 1)))]]

(***************************************************************************)
(* The embed of lines 231-274.                                             *)
(***************************************************************************)
Field(n, v) == [name |-> n, value |-> v]

OrNA(v) == IF v = "absent" THEN "N/A" ELSE v

\* Lines 250-252, for helius_data with a usable authorities entry.
HeliusFields(h) ==
    LET developer_address == OrNA(h.authorities)
    IN  << Field("Name", OrNA(h.name)),
           Field("Symbol", OrNA(h.symbol)),
           Field("Developer",
                 "[" \o developer_address
                     \o "...](https://explorer.solana.com/address/"
                     \o developer_address \o ")") >>

\* Line 258.
ErrorFields == << Field("Error", "No data found from Helius.") >>

\* Lines 261-271.
StatusFields(i) ==
    << Field("Dex Paid?", dex_paid_status[i]),
       Field("Jito Bundle Status", jito_bundle_status[i]),
       Field("Migration Status", migration_status[i]),
       Field("Latest Trade Information", "---"),
       Field("Buy Volume (USD)", trade_info[i].buy_volume),
       Field("Sell Volume (USD)", trade_info[i].sell_volume),
       Field("Total Trade Volume (USD)", trade_info[i].total_trade_volume) >>

(***************************************************************************)
(* The event loop.                                                         *)
(***************************************************************************)
\* Were the Bitquery calls awaited, the loop would stay free during them.
NotBlocking(i) == 0

\* What `running` holds while invocation i is between the DexScreener
\* response and its final ctx.send: check_migration_status,
\* check_jito_bundle and get_latest_trade_info's body do not await, and
\* requests.post (lines 52, 80) blocks the thread, so no other coroutine
\* runs until i awaits again or ends.
Blocking(i) == i

Set(f, i, v) == [f EXCEPT ![i] = v]

Sent(i, what) == [reqs EXCEPT ![i][what] = @ + 1]

\* fetch_token_status ends, by its return or by an exception that leaves
\* it: the event loop is free again and the frame, with its locals, is
\* gone.  The request counts are those of the invocation in progress.
End(i, how, e) ==
    /\ pc' = Set(pc, i, how)
    /\ exc' = Set(exc, i, e)
    /\ running' = 0
    /\ stage' = Set(stage, i, "none")
    /\ access_token' = Set(access_token, i, NoToken)
    /\ result' = Set(result, i, Unbound)
    /\ helius_data' = Set(helius_data, i, Unbound)
    /\ dex_paid_status' = Set(dex_paid_status, i, "unbound")
    /\ migration_status' = Set(migration_status, i, "unbound")
    /\ jito_bundle_status' = Set(jito_bundle_status, i, "unbound")
    /\ trade_info' = Set(trade_info, i, Unbound)
    /\ market_cap' = Set(market_cap, i, "unbound")
    /\ embed' = Set(embed, i, <<>>)
    /\ reqs' = Set(reqs, i, NoRequests)

Raise(i, type, line) == End(i, "raised", Exception(type, line))

(***************************************************************************)
(* fetch_token_status, up to the Bitquery lookups (lines 211-219).         *)
(***************************************************************************)
\* The command arrives (again, when an earlier invocation of the slot has
\* ended): line 212 sends the notice and awaits.
Scan(i) ==
    /\ running = 0
    /\ pc[i] \in {"idle", "done", "raised"}
    /\ pc' = Set(pc, i, "notice")
    /\ exc' = Set(exc, i, NoException)
    /\ UNCHANGED <<faults, now, cache, running, stage, access_token, result,
                   locals, reqs>>

\* Line 215 up to the await of session.post (line 107).
HeliusRequest(i) ==
    /\ running = 0
    /\ pc[i] = "notice"
    /\ pc' = Set(pc, i, "helius_wait")
    /\ reqs' = Sent(i, "helius")
    /\ UNCHANGED <<faults, now, cache, running, stage, access_token, result,
                   locals, exc>>

\* The Helius call ends (lines 107-113); line 219 up to the await of
\* session.get (line 170).
HeliusResponse(i) ==
    /\ running = 0
    /\ pc[i] = "helius_wait"
    /\ \E resp \in Answers("helius", HeliusResponses, GoodHelius) :
         LET r == get_helius_asset_data(resp)
         IN  IF r.ev = "raise"
             THEN Raise(i, r.exc, 109)
             ELSE /\ helius_data' = Set(helius_data, i, r.value)
                  /\ pc' = Set(pc, i, "dex_wait")
                  /\ reqs' = Sent(i, "dex")
                  /\ UNCHANGED <<running, stage, access_token, result,
                                 dex_paid_status, lookups, market_cap,
                                 embed, exc>>
    /\ UNCHANGED <<faults, now, cache>>

\* The DexScreener call ends (lines 170-180); the invocation goes on to
\* line 222 without awaiting.
DexResponse(i) ==
    /\ running = 0
    /\ pc[i] = "dex_wait"
    /\ \E resp \in Answers("dex", DexResponses, GoodDex) :
         LET r == get_dex_paid_status(resp)
         IN  IF r.ev = "raise"
             THEN Raise(i, r.exc, 172)
             ELSE /\ dex_paid_status' = Set(dex_paid_status, i, r.value)
                  /\ pc' = Set(pc, i, "gql")
                  /\ stage' = Set(stage, i, "migration")
                  /\ running' = Blocking(i)
                  /\ UNCHANGED <<access_token, result, helius_data, lookups,
                                 market_cap, embed, exc, reqs>>
    /\ UNCHANGED <<faults, now, cache>>

(***************************************************************************)
(* get_bitquery_access_token and graphql_request (lines 38-88).            *)
(***************************************************************************)
\* Line 40: "hit" when the cached token is returned, "refresh" when the
\* function goes on to request a token, "TypeError" when the cache holds a
\* token and no expiry, so that None > datetime.utcnow() raises.
CacheCheck ==
    IF bitquery_access_token = NoToken THEN "refresh"
    ELSE IF bitquery_token_expires_at = NoExpiry THEN "TypeError"
    ELSE IF bitquery_token_expires_at > now THEN "hit"
    ELSE "refresh"

\* Line 57: the expiry stored for a 200 response.
ExpiresAt(resp) == now + Get(resp.expires_in, Num(DefaultExpiresIn, 1)).n

\* The line of the lookup's statement that raises.
RaisingLine(st) ==
    CASE st = "migration" -> 136 [] st = "jito" -> 161 [] OTHER -> 201

\* The migration lookup run again after the bundle lookup.
LookupAgain(st) ==
    CASE st = "migration" -> "jito" [] st = "jito" -> "migration"
      [] OTHER -> "none"

\* Where the invocation goes after a lookup.
NextLookup(st) ==
    CASE st = "migration" -> "jito" [] st = "jito" -> "trade"
      [] OTHER -> "none"

\* graphql_request has returned to the lookup invocation i is in: the
\* lookup's own lines (135-138, 160-163, 200-207) give its value, and the
\* invocation goes on to the next lookup, or to the embed.
Lookup(i) ==
    /\ running = Blocking(i)
    /\ pc[i] = "lookup"
    /\ LET st == stage[i]
           r == CASE st = "migration" -> check_migration_status(result[i])
                  [] st = "jito" -> check_jito_bundle(result[i])
                  [] OTHER -> get_latest_trade_info(result[i])
       IN  IF r.ev = "raise"
           THEN Raise(i, r.exc, RaisingLine(st))
           ELSE /\ migration_status' =
                     IF st = "migration"
                     THEN Set(migration_status, i, r.value)
                     ELSE migration_status
                /\ jito_bundle_status' =
                     IF st = "jito"
                     THEN Set(jito_bundle_status, i, r.value)
                     ELSE jito_bundle_status
                /\ trade_info' =
                     IF st = "trade"
                     THEN Set(trade_info, i, r.value) ELSE trade_info
                /\ stage' = Set(stage, i, NextLookup(st))
                /\ pc' = Set(pc, i, IF NextLookup(st) = "none"
                                    THEN "build" ELSE "gql")
                /\ access_token' = Set(access_token, i, NoToken)
                /\ result' = Set(result, i, Unbound)
                /\ UNCHANGED <<running, helius_data, dex_paid_status,
                               market_cap, embed, exc, reqs>>
    /\ UNCHANGED <<faults, now, cache>>

\* graphql_request returns `value` to the lookup (lines 70, 83, 88).
Return(i, value) ==
    /\ result' = Set(result, i, value)
    /\ pc' = Set(pc, i, "lookup")
    /\ UNCHANGED <<running, stage, access_token, locals, exc, reqs>>

\* graphql_request calls get_bitquery_access_token (line 67), which runs
\* to its return, to an exception, or to requests.post (line 52).  With a
\* token returned (line 41), graphql_request goes on to its own
\* requests.post (line 80).
GetBitqueryAccessToken(i) ==
    /\ running = Blocking(i)
    /\ pc[i] = "gql"
    /\ CASE CacheCheck = "hit" ->
              /\ access_token' = Set(access_token, i, bitquery_access_token)
              /\ pc' = Set(pc, i, "gql_wait")
              /\ reqs' = Sent(i, stage[i])
              /\ UNCHANGED <<running, stage, result, locals, exc>>
         [] CacheCheck = "TypeError" -> Raise(i, "TypeError", 40)
         [] OTHER ->
              /\ pc' = Set(pc, i, "token_wait")
              /\ reqs' = Sent(i, "token")
              /\ UNCHANGED <<running, stage, access_token, result, locals, exc>>
    /\ UNCHANGED <<faults, now, cache>>

\* requests.post of line 52 ends; lines 54-63, then graphql_request's
\* lines 68-80.
TokenResponse(i) ==
    /\ running = Blocking(i)
    /\ pc[i] = "token_wait"
    /\ \E resp \in Answers("token", TokenResponses,
                          { r \in TokenResponses : r.ev = "ok" }) :
         CASE resp.ev = "ok" ->
                /\ bitquery_access_token' = resp.access_token
                /\ bitquery_token_expires_at' = ExpiresAt(resp)
                /\ access_token' = Set(access_token, i, resp.access_token)
                /\ pc' = Set(pc, i, "gql_wait")
                /\ reqs' = Sent(i, stage[i])
                /\ UNCHANGED <<running, stage, result, locals, exc>>
           [] resp.ev = "non200" ->
                \* lines 59-63 return None, and so do lines 68-70
                /\ bitquery_access_token' = NoToken
                /\ UNCHANGED bitquery_token_expires_at
                /\ Return(i, GNone)
           [] resp.ev = "bad_expires_in" ->
                \* line 56 has stored the token when line 57 raises
                /\ bitquery_access_token' = resp.access_token
                /\ UNCHANGED bitquery_token_expires_at
                /\ Raise(i, "TypeError", 57)
           [] resp.ev = "transport" ->
                /\ UNCHANGED cache
                /\ Raise(i, "ConnectionError", 52)
           [] resp.ev = "bad_json" ->
                /\ UNCHANGED cache
                /\ Raise(i, "JSONDecodeError", 55)
           [] OTHER ->
                /\ UNCHANGED cache
                /\ Raise(i, "KeyError", 56)
    /\ UNCHANGED <<faults, now>>

\* requests.post of line 80 ends; lines 81-88.
GraphqlResponse(i) ==
    /\ running = Blocking(i)
    /\ pc[i] = "gql_wait"
    /\ \E resp \in Answers("graphql", GraphqlResponses(stage[i]),
                          GoodGraphql(stage[i])) :
         CASE resp.ev = "not_dict" -> Raise(i, "AttributeError", 83)
           [] resp.ev = "caught" -> Return(i, GNone)
           [] OTHER -> Return(i, resp.data)
    /\ UNCHANGED <<faults, now, cache>>

(***************************************************************************)
(* The embed and its sending (lines 231-277).                              *)
(***************************************************************************)
\* Lines 231-271.  authorities[0] raises IndexError on an empty list (line
\* 237).  market_cap is assigned in the "if helius_data:" branch only.
BuildEmbed(i) ==
    /\ running = Blocking(i)
    /\ pc[i] = "build"
    /\ LET h == helius_data[i]
       IN  IF h.kind = "data" /\ h.authorities = "empty"
           THEN Raise(i, "IndexError", 237)
           ELSE /\ market_cap' =
                     IF h.kind = "data"
                     THEN Set(market_cap, i, MarketCapOf(h.token_info))
                     ELSE market_cap
                /\ embed' = Set(embed, i,
                                (IF h.kind = "data"
                                 THEN HeliusFields(h) ELSE ErrorFields)
                                \o StatusFields(i))
                /\ pc' = Set(pc, i, "market_cap")
                /\ UNCHANGED <<running, stage, access_token, result,
                               helius_data,
                               dex_paid_status, lookups, exc, reqs>>
    /\ UNCHANGED <<faults, now, cache>>

\* Line 274: reading market_cap raises UnboundLocalError when the else
\* branch of line 257 was taken.
AddMarketCap(i) ==
    /\ running = Blocking(i)
    /\ pc[i] = "market_cap"
    /\ IF market_cap[i] = "unbound"
       THEN Raise(i, "UnboundLocalError", 274)
       ELSE /\ embed' = Set(embed, i,
                   Append(embed[i], Field("Market Cap", market_cap[i])))
            /\ pc' = Set(pc, i, "send")
            /\ UNCHANGED <<running, stage, access_token, result,
                               helius_data,
                           dex_paid_status, lookups, market_cap, exc, reqs>>
    /\ UNCHANGED <<faults, now, cache>>

\* Line 277: the embed is sent; the invocation awaits, and returns.
SendEmbed(i) ==
    /\ running = Blocking(i)
    /\ pc[i] = "send"
    /\ End(i, "done", NoException)
    /\ UNCHANGED <<faults, now, cache>>

\* Time passes, also while a request blocks the thread.
Tick ==
    /\ now < MaxTime
    /\ now' = now + 1
    /\ UNCHANGED <<faults, cache, running, pc, stage, access_token, result,
                   locals, exc, reqs>>

Next ==
    \/ Tick
    \/ \E i \in Scans :
         \/ Scan(i)
         \/ HeliusRequest(i)
         \/ HeliusResponse(i)
         \/ DexResponse(i)
         \/ GetBitqueryAccessToken(i)
         \/ TokenResponse(i)
         \/ GraphqlResponse(i)
         \/ Lookup(i)
         \/ BuildEmbed(i)
         \/ AddMarketCap(i)
         \/ SendEmbed(i)

Spec == Init /\ [][Next]_vars

SpecShared == InitShared /\ [][Next]_vars

(***************************************************************************)
(* The market cap on its own: invocation 1 has reached line 231 with a     *)
(* Helius result whose price, supply and decimals are drawn from the sets  *)
(* below (the three token requests of its lookups were answered with a     *)
(* status other than 200).  Later commands find every provider answering   *)
(* well.                                                                   *)
(***************************************************************************)
Prices == {Absent, NonNumeric, Null, Num(0, 1), Num(-1, 1), Num(1, 1),
           Num(3, 1), Num(1, 2)}

Supplies == {Absent, NonNumeric, Num(0, 1), Num(-5, 1), Num(1000, 1),
             Num(1234, 1), Num(1236, 1)}

Decimals == {Absent, Num(0, 1), Num(1, 1), Num(2, 1), Num(3, 1)}

InitMarketCap ==
    /\ now = 0
    /\ bitquery_access_token = NoToken
    /\ bitquery_token_expires_at = NoExpiry
    /\ running = Blocking(1)
    /\ faults = {}
    /\ pc = [i \in Scans |-> IF i = 1 THEN "build" ELSE "off"]
    /\ stage = [i \in Scans |-> "none"]
    /\ access_token = [i \in Scans |-> NoToken]
    /\ result = [i \in Scans |-> Unbound]
    /\ \E p \in Prices, s \in Supplies, d \in Decimals :
         helius_data = [i \in Scans |->
                          IF i = 1 THEN HData("Token", "TKN", "Dev1", p, s, d)
                          ELSE Unbound]
    /\ dex_paid_status = [i \in Scans |-> IF i = 1 THEN "Yes" ELSE "unbound"]
    /\ migration_status =
         [i \in Scans |-> IF i = 1 THEN "Unavailable" ELSE "unbound"]
    /\ jito_bundle_status =
         [i \in Scans |-> IF i = 1 THEN "Unavailable" ELSE "unbound"]
    /\ trade_info = [i \in Scans |-> IF i = 1 THEN Unavailable3 ELSE Unbound]
    /\ market_cap = [i \in Scans |-> "unbound"]
    /\ embed = [i \in Scans |-> <<>>]
    /\ exc = [i \in Scans |-> NoException]
    /\ reqs = [i \in Scans |->
                 IF i = 1
                 THEN [NoRequests EXCEPT !.helius = 1, !.dex = 1, !.token = 3]
                 ELSE NoRequests]

SpecMarketCap == InitMarketCap /\ [][Next]_vars

(***************************************************************************)
(* Properties.                                                             *)
(***************************************************************************)
FieldNames(e) == { e[k].name : k \in DOMAIN e }

FieldValue(e, n) == e[CHOOSE k \in DOMAIN e : e[k].name = n].value

\* The fields of the summary.
SummaryFields ==
    {"Name", "Symbol", "Developer", "Dex Paid?", "Jito Bundle Status",
     "Migration Status", "Buy Volume (USD)", "Sell Volume (USD)",
     "Total Trade Volume (USD)", "Market Cap"}

\* C1: no provider failure keeps fetch_token_status from sending its
\* summary, and no exception leaves the handler; in particular none does
\* when Helius yields no data, the case stated here: no invocation is ended
\* by line 274 reading a market_cap that was never assigned.
C1_NoExceptionWithoutHeliusData ==
    \A i \in Scans : exc[i] # Exception("UnboundLocalError", 274)

\* C2: the summary of an invocation holds every field of SummaryFields,
\* also when Helius returned None or an empty result: once lines 231-271
\* have run the embed holds all fields but Market Cap, and the embed handed
\* to ctx.send holds that one too.
C2_SummaryFullyPopulated ==
    \A i \in Scans :
        /\ pc[i] \in {"market_cap", "send"}
             => SummaryFields \ {"Market Cap"} \subseteq FieldNames(embed[i])
        /\ pc[i] = "send" => "Market Cap" \in FieldNames(embed[i])

\* The summaries that are sent (all have Helius data) hold every field.
SentSummariesComplete ==
    \A i \in Scans :
        pc[i] = "send" => SummaryFields \subseteq FieldNames(embed[i])

\* Every token request of invocation i failed: it asked for a token and
\* sent no GraphQL query.
AuthFailed(i) ==
    /\ reqs[i].token >= 1
    /\ reqs[i].migration = 0 /\ reqs[i].jito = 0 /\ reqs[i].trade = 0

\* C3: when the token request fails, by a status other than 200 or at
\* transport level, the invocation still yields its summary, with the
\* migration status, the bundle status and the three volumes
\* "Unavailable": a transport failure (requests.post of line 52 raising
\* ConnectionError) does not end the invocation, and a summary built after
\* failed token requests holds those five values.
C3_AuthFailureGivesUnavailable ==
    \A i \in Scans :
        /\ exc[i] # Exception("ConnectionError", 52)
        /\ pc[i] = "send" /\ AuthFailed(i)
             => \A n \in {"Jito Bundle Status", "Migration Status",
                          "Buy Volume (USD)", "Sell Volume (USD)",
                          "Total Trade Volume (USD)"} :
                    FieldValue(embed[i], n) = "Unavailable"

\* With a status other than 200 the summary is as C3 says.
C3_Non200Case ==
    \E i \in Scans :
        /\ pc[i] = "send" /\ AuthFailed(i)
        /\ FieldValue(embed[i], "Migration Status") = "Unavailable"

\* C10: whenever the cache holds a token it holds an expiry, so that line
\* 40 never compares None with a datetime.
C10_TokenImpliesExpiry ==
    bitquery_access_token # NoToken => bitquery_token_expires_at # NoExpiry

\* The response has no rows: graphql_request returned None or {}, or
\* DEXTradeByTokens is absent or empty.
NoTradeRows(res) ==
    \/ ~Truthy(res)
    \/ res.DEXTradeByTokens \in {Absent, [t |-> "empty"]}

\* C4: get_latest_trade_info never raises, and returns the three values as
\* "Unavailable" when the query failed or the response has no rows: the
\* step that runs lines 200-207 on such a result leaves the invocation at
\* the embed with trade_info all "Unavailable".
C4_NoRowsGivesUnavailable ==
    [][\A i \in Scans :
          (pc[i] = "lookup" /\ stage[i] = "trade" /\ pc'[i] # "lookup"
           /\ NoTradeRows(result[i]))
             => pc'[i] = "build" /\ trade_info'[i] = Unavailable3]_vars

\* The cache holds a token whose expiry is strictly in the future.
CachedUnexpired ==
    /\ bitquery_access_token # NoToken
    /\ bitquery_token_expires_at # NoExpiry
    /\ bitquery_token_expires_at > now

\* C5: with overlapping invocations sharing the cache there is no
\* redundant refresh: a token request is in flight only while the cache
\* holds no unexpired token (so none is sent while a token is unexpired,
\* and every token granted replaces a missing or expired one), at most one
\* is in flight at a time, and an invocation that goes on to its GraphQL
\* query holds the token of the cache.
C5_NoRedundantRefresh ==
    /\ Cardinality({ i \in Scans : pc[i] = "token_wait" }) <= 1
    /\ \A i \in Scans :
         /\ pc[i] = "token_wait" => ~CachedUnexpired
         /\ pc[i] = "gql_wait" => access_token[i] = bitquery_access_token

\* An invocation sends its first GraphQL query with a cached token it did
\* not request, while another invocation is in flight and time has passed.
C5_Witness ==
    \E i, j \in Scans :
        /\ i # j
        /\ pc[i] = "gql_wait" /\ stage[i] = "migration"
        /\ reqs[i].token = 0
        /\ pc[j] \in {"notice", "helius_wait", "dex_wait"}
        /\ now >= 2

\* C6: get_bitquery_access_token sends a token request if and only if the
\* cache holds no token or an expiry that is not strictly in the future,
\* and otherwise returns the cached token with no request and the cache as
\* it was; a token granted is cached with expiry now + expires_in (3600
\* when absent).
C6_RequestIffNoValidToken ==
    [][\A i \in Scans :
          /\ (pc[i] = "gql" /\ pc'[i] # "gql")
               => IF \/ bitquery_access_token = NoToken
                     \/ ~(bitquery_token_expires_at > now)
                  THEN /\ pc'[i] = "token_wait"
                       /\ reqs'[i].token = reqs[i].token + 1
                  ELSE /\ pc'[i] = "gql_wait"
                       /\ access_token'[i] = bitquery_access_token
                       /\ reqs'[i].token = reqs[i].token
                       /\ cache' = cache
          /\ (pc[i] = "token_wait" /\ pc'[i] = "gql_wait")
               => /\ bitquery_access_token' = access_token'[i]
                  /\ bitquery_token_expires_at' - now
                       \in (1 .. MaxExpiresIn) \cup {DefaultExpiresIn}]_vars

\* The lookups invocation i has begun.
LookupsBegun(i) ==
    CASE stage[i] = "migration" -> 1
      [] stage[i] = "jito" -> 2
      [] stage[i] = "trade" -> 3
      [] pc[i] \in {"build", "market_cap", "send"} -> 3
      [] OTHER -> 0

ClaimedMarketCap(token_info) ==
    LET p == token_info.price
        s == token_info.supply
        d == IF token_info.decimals = Absent THEN 0
             ELSE token_info.decimals.n
    IN  IF p.t # "num" \/ s.t # "num" THEN "N/A"
        ELSE IF p.n <= 0 \/ s.n <= 0 THEN "N/A"
        ELSE format_number(Num(p.n * s.n, p.d * s.d * Pow10(d)))

\* C8: with Helius data present, the market cap of the summary is the
\* claimed one.
C8_MarketCap ==
    \A i \in Scans :
        (pc[i] \in {"market_cap", "send"} /\ helius_data[i].kind = "data")
            => /\ market_cap[i] = ClaimedMarketCap(helius_data[i].token_info)
               /\ pc[i] = "send"
                    => FieldValue(embed[i], "Market Cap") = market_cap[i]

\* A summary about to be sent whose market cap was adjusted by three
\* decimals and rounded to cents: 3 * 1236 / 10^3 = 3.708.
C8_Witness ==
    \E i \in Scans :
        /\ pc[i] = "send"
        /\ helius_data[i].token_info =
             [price |-> Num(3, 1), supply |-> Num(1236, 1),
              decimals |-> Num(3, 1)]
        /\ market_cap[i] = "$3.71"

\* The status a lookup gives for a result of graphql_request, as claimed.
ClaimedStatus(res, none_msg) ==
    IF ~Truthy(res) THEN "Unavailable"
    ELSE IF res.Instructions = "rows" THEN "Detected"
    ELSE none_msg

\* C9: check_migration_status and check_jito_bundle produce one of their
\* three values and no exception: no invocation is ended by an exception
\* while it is in one of the two lookups, and the step that runs the
\* lookup's own lines stores the claimed status.
C9_StatusOneOfThree ==
    [][\A i \in Scans :
          stage[i] \in {"migration", "jito"}
            => /\ pc'[i] # "raised"
               /\ (pc[i] = "lookup" /\ pc'[i] # "lookup")
                    => IF stage[i] = "migration"
                       THEN migration_status'[i] =
                              ClaimedStatus(result[i],
                                            "No migration detected.")
                       ELSE jito_bundle_status'[i] =
                              ClaimedStatus(result[i],
                                            "No Jito Bundle detected.")]_vars

====
